---- MODULE Spec2Model ----
(***************************************************************************)
(* Model of the Poshmark crawl (src/PoshmarkUSSpider.py) and of the        *)
(* Airflow DAG that schedules it (src/PoshmarkUSDAG.py).                   *)
(*                                                                         *)
(* Python values are modelled as follows.                                  *)
(*   - a str is a sequence of tokens (a token is a TLA+ string that stands *)
(*     for one or more characters); "" is << >>;                           *)
(*   - an optional value (None or a value v) is a sequence of length at    *)
(*     most one: None is << >> and v is << v >>;                           *)
(*   - a list is a sequence, a dict is a record.                           *)
(*                                                                         *)
(* Specifications:                                                         *)
(*   Spec          one run of the spider, from construction to closed();   *)
(*   FairSpec      Spec, the engine processing whatever is enabled;        *)
(*   SpecSeeds     start_requests over every seed of the seed domain;      *)
(*   SpecScroll    _scroll_page over every sequence of observations;       *)
(*   FairSpecScroll  SpecScroll, the loop running on;                      *)
(*   SpecParse     PoshmarkParser.parse over every detail page;            *)
(*   SpecShutdown  closed() over every content of the accumulators, and    *)
(*                 the construction of the next spider in the process;     *)
(*   SpecDAG       one run of the DAG: the scheduler and the two tasks;    *)
(*   FairSpecDAG   SpecDAG, the scheduler scheduling and tries ending.     *)
(***************************************************************************)
EXTENDS Integers, Sequences, FiniteSets, Bags, TLC

VARIABLES
    phase,                \* "running" | "closed": the spider's life cycle
    driver,               \* self.driver's session: "alive" | "quit"
    seeds,                \* the list scraper_url_list returned
    yielded,              \* history: per iterated seed, was a Request yielded
    startPc,              \* start_requests: "start" | "done" (exhausted)
    scheduled,            \* bag of Requests accepted by the scheduler, not yet delivered
    seen,                 \* the dupefilter's fingerprints (urls of filtered requests)
    cycleLog,             \* history: outcome of every crawl_poshmark_products cycle
    parseLog,             \* history: every response handed to parser.parse, with its outcome
    engineErrors,         \* exceptions that escaped a callback into the engine
    products,             \* PoshmarkCrawler.products
    taken_down_list,      \* PoshmarkCrawler.taken_down_list
    missing_seller_list,  \* PoshmarkCrawler.missing_seller_list
    calls,                \* collaborator calls, in call order
    files,                \* output files written by closed(): set of row lists
    last_height,          \* _scroll_page local
    products_count,       \* _scroll_page local
    scroll_attempts,      \* _scroll_page local
    scrollPc,             \* _scroll_page position: "idle" | "loop" | "returned"
    scrolls,              \* history: loop bodies _scroll_page has executed
    growth,               \* history: "steady" while every observation exceeded the
                          \* one before in height and count, "capped" when the
                          \* latest such observation counted more than 500
                          \* cards, "broken" otherwise
    stalled,              \* history: the latest observation did not exceed the
                          \* one before in height or in count, or counted
                          \* more than 500 cards
    taskState,            \* DAG run: the state of each task instance
    try_number,           \* DAG run: tries each task instance has started
    taskLog               \* history: what each finished try did

vars == << phase, driver, seeds, yielded, startPc, scheduled, seen,
           cycleLog, parseLog, engineErrors, products, taken_down_list,
           missing_seller_list, calls, files, last_height, products_count,
           scroll_attempts, scrollPc, scrolls, growth, stalled,
           taskState, try_number, taskLog >>

runVars == << phase, driver, seeds, yielded, startPc, scheduled, seen,
              cycleLog, parseLog, engineErrors, products, taken_down_list,
              missing_seller_list, calls, files >>

scrollVars == << last_height, products_count, scroll_attempts, scrollPc, scrolls,
                growth, stalled >>

dagVars == << taskState, try_number, taskLog >>

(***************************************************************************)
(* Bounds of the model.                                                    *)
(***************************************************************************)
MaxSeeds == 2          \* seeds in the list of one run
MaxFieldLen == 3       \* tokens in a seed's regions / countries string
MaxCards == 3          \* listing cards on a rendered search page
MaxAux == 1            \* urls returned by each auxiliary lookup
MaxAccum == 3          \* entries of an accumulator handed to closed()

(***************************************************************************)
(* Python helpers.                                                         *)
(***************************************************************************)
None == << >>
Some(v) == << v >>

\* Python truthiness of an optional str: None and "" are falsy.
Truthy(o) == o # None /\ o[1] # << >>

RECURSIVE SplitFrom(_, _, _)
SplitFrom(s, sep, cur) ==
    IF s = << >> THEN << cur >>
    ELSE IF Head(s) = sep THEN << cur >> \o SplitFrom(Tail(s), sep, << >>)
    ELSE SplitFrom(Tail(s), sep, Append(cur, Head(s)))

\* str.split(sep) for a separator that is one token.
Split(s, sep) == SplitFrom(s, sep, << >>)

\* x in list
In(x, list) == \E i \in 1..Len(list) : list[i] = x

SeqsUpTo(S, n) == UNION { [1..k -> S] : k \in 0..n }

(***************************************************************************)
(* Seeds (the dicts scraper_url_list returns) and start_requests.          *)
(***************************************************************************)
base_url == << "http", "s://poshmark.com" >>

RegionTokens == { "NA", "EU", ", " }
CountryTokens == { "United States", "France", ", " }

\* obj.get(key): None when the key is absent, else a str of at most MaxFieldLen tokens.
OptStr(tokens) == { None } \cup { Some(s) : s \in SeqsUpTo(tokens, MaxFieldLen) }

MkSeed(u, k, c, r, n) ==
    [ url |-> u, keyword |-> k, company_id |-> c, regions |-> r, countries |-> n ]

\* Every seed over the token alphabets: the domain start_requests is checked on.
SeedDomain ==
    { MkSeed(base_url \o << "/search/dress" >>, "dress", 7, r, n) :
        r \in OptStr(RegionTokens), n \in OptStr(CountryTokens) }

\* The seeds of a whole run: a global seed, one for NA, one whose regions include NA
\* and one for EU / France only.
SeedPool ==
    { MkSeed(base_url \o << "/search/dress" >>, "dress", 7, None, None),
      MkSeed(base_url \o << "/search/shoes" >>, "shoes", 8,
             Some(<< "EU", ", ", "NA" >>), None),
      MkSeed(base_url \o << "/search/shoes" >>, "shoes", 8,
             Some(<< "EU" >>), Some(<< "France" >>)) }

\* line 123: obj.get("regions", "").split(", ") if obj.get("regions") else []
regions_of(obj) ==
    IF Truthy(obj.regions) THEN Split(obj.regions[1], ", ") ELSE << >>

\* line 124
countries_of(obj) ==
    IF Truthy(obj.countries) THEN Split(obj.countries[1], ", ") ELSE << >>

\* A plausible slip: the global test written with "or".
should_crawl_or(obj) ==
    \/ (regions_of(obj) = << >> \/ countries_of(obj) = << >>)
    \/ In(<< "NA" >>, regions_of(obj))
    \/ In(<< "United States" >>, countries_of(obj))

\* lines 126-130: "and" binds tighter than "or".
should_crawl(obj) ==
    \/ (regions_of(obj) = << >> /\ countries_of(obj) = << >>)
    \/ In(<< "NA" >>, regions_of(obj))
    \/ In(<< "United States" >>, countries_of(obj))

NoMeta == [ kind |-> "none", advert |-> None ]

\* scrapy.Request as the spider builds it.
Request(u, cb, c, k, m, df) ==
    [ url |-> u, callback |-> cb, company_id |-> c, keyword |-> k,
      meta |-> m, dont_filter |-> df ]

\* Scheduler.enqueue_request for a list of requests: a request that is not
\* dont_filter and whose url the dupefilter has seen is dropped.
RECURSIVE EnqueueAll(_, _, _)
EnqueueAll(reqs, sched, sn) ==
    IF reqs = << >> THEN [ scheduled |-> sched, seen |-> sn ]
    ELSE LET r == Head(reqs) IN
         IF r.dont_filter
         THEN EnqueueAll(Tail(reqs), sched (+) SetToBag({ r }), sn)
         ELSE IF r.url \in sn
              THEN EnqueueAll(Tail(reqs), sched, sn)
              ELSE EnqueueAll(Tail(reqs), sched (+) SetToBag({ r }), sn \cup { r.url })

\* The urls of detail pages, and what the two lookups can return: the url of
\* a listing that is gone, and an advert (advert_id, product, url) whose
\* listing is still on the site.
ListingA == base_url \o << "/listing/a" >>
ListingB == base_url \o << "/listing/b" >>
ListingGone == base_url \o << "/listing/gone" >>
AuxUrls == { ListingGone }
Adverts == { << 1, "bag", ListingA >> }

\* lines 122-143: the Requests the loop over the seeds yields, in order.
RECURSIVE seed_requests(_)
seed_requests(sd) ==
    IF sd = << >> THEN << >>
    ELSE LET obj == Head(sd) IN
         (IF should_crawl(obj)
          THEN << Request(obj.url, "crawl_poshmark_products", Some(obj.company_id),
                          Some(obj.keyword), NoMeta, TRUE) >>
          ELSE << >>)
         \o seed_requests(Tail(sd))

\* lines 215-224: _handle_missing_seller_urls
missing_seller_requests(missing_seller_urls) ==
    [ i \in 1..Len(missing_seller_urls) |->
        Request(missing_seller_urls[i], "parse", None, None,
                [ kind |-> "missing_seller", advert |-> None ], FALSE) ]

\* lines 226-236: _handle_taken_down_adverts
taken_down_requests(taken_down_adverts) ==
    [ i \in 1..Len(taken_down_adverts) |->
        Request(taken_down_adverts[i][3], "parse", None, None,
                [ kind |-> "taken_down",
                  advert |-> Some(<< taken_down_adverts[i][1],
                                     taken_down_adverts[i][2] >>) ],
                FALSE) ]

\* lines 116-146: start_requests, consumed by the engine.  MissingLists and
\* TakenLists are the lists the two lookups can return.
start_requests(MissingLists, TakenLists) ==
    /\ phase = "running"
    /\ startPc = "start"
    /\ \E missing_seller_urls \in MissingLists, taken_down_adverts \in TakenLists :
         LET q == EnqueueAll(seed_requests(seeds)
                             \o missing_seller_requests(missing_seller_urls)
                             \o taken_down_requests(taken_down_adverts),
                             scheduled, seen)
         IN /\ scheduled' = q.scheduled
            /\ seen' = q.seen
    /\ yielded' = [ i \in 1..Len(seeds) |-> should_crawl(seeds[i]) ]
    /\ startPc' = "done"
    /\ UNCHANGED << phase, driver, seeds, cycleLog, parseLog,
                    engineErrors, products, taken_down_list, missing_seller_list,
                    calls, files >>
    /\ UNCHANGED << scrollVars, dagVars >>

(***************************************************************************)
(* PoshmarkParser: the detail-page extractor.                              *)
(***************************************************************************)
Today == << "today" >>      \* get_today_date()

Whitespace == { " " }

RECURSIVE LStrip(_)
LStrip(s) == IF s # << >> /\ Head(s) \in Whitespace THEN LStrip(Tail(s)) ELSE s

RECURSIVE RStrip(_)
RStrip(s) ==
    IF s # << >> /\ s[Len(s)] \in Whitespace THEN RStrip(SubSeq(s, 1, Len(s) - 1)) ELSE s

\* str.strip()
Strip(s) == RStrip(LStrip(s))

\* A response of a detail page: its url, its HTTP status and, for each
\* selector parse reads, what response.css(selector).get() returns (None when
\* nothing matches).
Response(u, s, t, d, p, i, m) ==
    [ url |-> u, status |-> s, title |-> t, description |-> d, price |-> p,
      pic |-> i, meta |-> m ]

\* lines 58-60
get_product_title(response) ==
    IF Truthy(response.title) THEN Strip(response.title[1]) ELSE << >>

\* lines 62-64
get_product_description(response) ==
    IF Truthy(response.description) THEN Strip(response.description[1]) ELSE << >>

\* lines 66-68
get_product_price(response) ==
    IF Truthy(response.price) THEN Strip(response.price[1]) ELSE << >>

\* lines 70-72: product_image or ""
get_product_image(response) ==
    IF Truthy(response.pic) THEN response.pic[1] ELSE << >>

\* The attributes a PoshmarkParser instance has: the methods the class
\* defines and those it inherits from scrapy.Spider.
ParserAttributes ==
    { "name", "parse", "get_product_title", "get_product_description",
      "get_product_price", "get_product_image",
      "logger", "start_requests", "from_crawler", "update_settings",
      "handles_request", "close", "custom_settings", "crawler", "settings" }

\* self.<name>(response): the attribute lookup raises AttributeError when the
\* instance has no such attribute.
Ok(v) == [ ok |-> TRUE, value |-> v, exc |-> "" ]
Raise(e) == [ ok |-> FALSE, value |-> << >>, exc |-> e ]

CallMethod(name, response) ==
    IF name \notin ParserAttributes THEN Raise("AttributeError")
    ELSE CASE name = "get_product_title" -> Ok(get_product_title(response))
           [] name = "get_product_description" -> Ok(get_product_description(response))
           [] name = "get_product_price" -> Ok(get_product_price(response))
           [] name = "get_product_image" -> Ok(get_product_image(response))
           [] OTHER -> Raise("TypeError")

\* lines 50-53: the method names parse looks up on self.
parse_getters ==
    [ title |-> "get_title", description |-> "get_description",
      price |-> "get_price", pic |-> "get_image" ]

\* lines 36-54: the dict literal; its values are evaluated in order, and the
\* first one that raises ends the evaluation.
parse_product(response, kwargs) ==
    LET t == CallMethod(parse_getters.title, response)
        d == CallMethod(parse_getters.description, response)
        p == CallMethod(parse_getters.price, response)
        i == CallMethod(parse_getters.pic, response)
    IN IF ~t.ok THEN t
       ELSE IF ~d.ok THEN d
       ELSE IF ~p.ok THEN p
       ELSE IF ~i.ok THEN i
       ELSE Ok([ seller |-> << "poshmark" >>,
                 company_id |-> kwargs.company_id,
                 keyword |-> kwargs.keyword,
                 region |-> << "NA" >>,
                 country |-> << "United States" >>,
                 domain |-> << "poshmark.com" >>,
                 currency |-> << "USD" >>,
                 shipping_address |-> << >>,
                 created_at |-> Today,
                 url |-> response.url,
                 title |-> t.value,
                 description |-> d.value,
                 price |-> p.value,
                 pic |-> i.value ])

\* What one call of a callback did: the Listing it appended to products (if
\* any), the exception a wrapper caught and logged, the exception that left
\* the callback.
Outcome(appended, caught, escaped) ==
    [ appended |-> appended, caught |-> caught, escaped |-> escaped ]

\* utils.exception_handler, the decorator of parse: it catches whatever the
\* wrapped callback raises, logs it, and returns normally.
exception_handler(r) ==
    IF r.ok THEN Outcome(Some(r.value), "", "") ELSE Outcome(None, r.exc, "")

\* The callback without a wrapper: what it raises leaves it.
undecorated(r) ==
    IF r.ok THEN Outcome(Some(r.value), "", "") ELSE Outcome(None, "", r.exc)

\* A plausible slip: parse registered without its decorator.
parse_undecorated(response, kwargs) == undecorated(parse_product(response, kwargs))

\* lines 32-56: @exception_handler def parse; line 56 appends the dict when
\* its construction did not raise.
parse(response, kwargs) == exception_handler(parse_product(response, kwargs))

(***************************************************************************)
(* The site as one run sees it.                                            *)
(***************************************************************************)
FullText == Some(<< " ", "T", " " >>)

\* The detail page behind a url: the two listings are fully populated, a
\* listing that is gone is a 404 page with none of the four elements.
Web(u, m) ==
    IF u = ListingGone THEN Response(u, 404, None, None, None, None, m)
    ELSE Response(u, 200, FullText, FullText, FullText, Some(<< "img" >>), m)

RunPages(req) == { Web(req.url, req.meta) }

\* a::attr(href) of a listing card: no anchor, a relative href, an absolute one.
Hrefs == { None, Some(<< "/listing/a" >>), Some(ListingB) }

\* line 176: product_url.startswith("http")
startswith_http(u) == u # << >> /\ Head(u) = "http"

\* A plausible slip: the base url prefixed to every href.
product_url_prefixed(href) == base_url \o href

\* lines 176-177
product_url_of(href) ==
    IF ~startswith_http(href) THEN base_url \o href ELSE href

\* The hrefs among the cards.
RECURSIVE Anchors(_)
Anchors(cards) ==
    IF cards = << >> THEN << >>
    ELSE (IF Truthy(Head(cards)) THEN << Head(cards)[1] >> ELSE << >>) \o Anchors(Tail(cards))

\* The elements of a list, each with the number of times it occurs.
BagOfSeq(s) ==
    [ x \in { s[i] : i \in 1..Len(s) } |-> Cardinality({ i \in 1..Len(s) : s[i] = x }) ]

\* What one cycle did: how the render ended, the cards on the page and the
\* anchors among them, the follow-up Requests it yielded, the exception that left it, and the state of
\* the session when it ended.
CycleEntry(req, outcome, cards, reqs, exc, after) ==
    [ keyword |-> req.keyword, company_id |-> req.company_id, outcome |-> outcome,
      cards |-> BagOfSeq(cards), anchors |-> Len(Anchors(cards)),
      requests |-> BagOfSeq(reqs), emitted |-> Len(reqs), escaped |-> exc, driverAfter |-> after ]

EngineError(cb, exc) == [ callback |-> cb, exc |-> exc ]

\* WebDriverWait(driver, 10).until(presence_of_element_located(...)): returns
\* the element once it is present and raises TimeoutException when the wait
\* elapses; it never returns a falsy value.
wait_until(present) == IF present THEN Ok(TRUE) ELSE Raise("TimeoutException")

(***************************************************************************)
(* crawl_poshmark_products.  The callback is a generator; the engine       *)
(* exhausts it, and the model takes the whole of it as one step.           *)
(***************************************************************************)
Cycle(drv, reqs, entry) == [ driver |-> drv, requests |-> reqs, entry |-> entry ]

ListingRequest(u, c, k) == Request(u, "parse", c, k, NoMeta, TRUE)

\* lines 171-187: the Requests the loop over the cards yields, in order.
RECURSIVE product_requests(_, _)
product_requests(cards, req) ==
    IF cards = << >> THEN << >>
    ELSE (IF ~Truthy(Head(cards)) THEN << >>
          ELSE << ListingRequest(product_url_of(Head(cards)[1]),
                                 req.company_id, req.keyword) >>)
         \o product_requests(Tail(cards), req)

\* lines 148-189.  drv: the session's state when the callback starts;
\* present: did the grid appear within the wait; cards: the hrefs of the
\* cards in page_source once _scroll_page has returned.
crawl_poshmark_products(req, drv, present, cards) ==
    IF drv = "quit"
    THEN \* line 149: driver.get on a session that was quit raises
         Cycle(drv, << >>, CycleEntry(req, "dead", << >>, << >>, "WebDriverException", drv))
    ELSE LET w == wait_until(present) IN
         IF ~w.ok
         THEN \* line 156 raises: nothing below it runs
              Cycle(drv, << >>, CycleEntry(req, "timeout", << >>, << >>, w.exc, drv))
         ELSE IF ~w.value
         THEN \* lines 157-159
              Cycle("quit", << >>, CycleEntry(req, "not found", << >>, << >>, "", "quit"))
         ELSE IF cards = << >>
         THEN \* lines 165-168
              Cycle("quit", << >>, CycleEntry(req, "empty", cards, << >>, "", "quit"))
         ELSE \* lines 171-189
              Cycle("quit", product_requests(cards, req),
                    CycleEntry(req, "cards", cards, product_requests(cards, req),
                               "", "quit"))

\* The engine hands the response of a search request to the callback.
crawl_deliver(req) ==
    /\ phase = "running"
    /\ BagIn(req, scheduled)
    /\ req.callback = "crawl_poshmark_products"
    /\ \E present \in BOOLEAN :
       \E cards \in (IF present /\ driver = "alive"
                     THEN SeqsUpTo(Hrefs, MaxCards) ELSE { << >> }) :
         LET c == crawl_poshmark_products(req, driver, present, cards)
             q == EnqueueAll(c.requests, scheduled (-) SetToBag({ req }), seen)
         IN /\ driver' = c.driver
            /\ scheduled' = q.scheduled
            /\ seen' = q.seen
            /\ cycleLog' = cycleLog \cup { c.entry }
            /\ engineErrors' = IF c.entry.escaped = "" THEN engineErrors
                               ELSE engineErrors \cup
                                    { EngineError("crawl_poshmark_products",
                                                  c.entry.escaped) }
    /\ UNCHANGED << phase, seeds, yielded, startPc, parseLog, products,
                    taken_down_list, missing_seller_list, calls, files >>
    /\ UNCHANGED << scrollVars, dagVars >>

\* A plausible slip: the setting left at its default, no code allowed.
no_allowed_codes == { }

\* line 95: "HTTPERROR_ALLOWED_CODES": [code for code in range(100, 1000) if code != 200]
HTTPERROR_ALLOWED_CODES == { code \in 100..999 : code # 200 }

\* HttpErrorMiddleware under these settings: a response passes to its
\* callback when its status is 2xx or is one of the allowed codes; any other
\* response is ignored.
HttpErrorMiddleware(status) ==
    (200 <= status /\ status < 300) \/ status \in HTTPERROR_ALLOWED_CODES

\* The engine hands the response of a listing request to parser.parse, unless
\* HttpErrorMiddleware ignores it.
parse_deliver(req, response) ==
    /\ phase = "running"
    /\ BagIn(req, scheduled)
    /\ req.callback = "parse"
    /\ IF HttpErrorMiddleware(response.status)
       THEN LET kwargs == [ company_id |-> req.company_id, keyword |-> req.keyword ]
                out == parse(response, kwargs)
            IN /\ products' = IF out.appended = None THEN products
                              ELSE Append(products, out.appended[1])
               /\ parseLog' = parseLog \cup
                     { [ response |-> response, kwargs |-> kwargs, outcome |-> out ] }
               /\ engineErrors' = IF out.escaped = "" THEN engineErrors
                                  ELSE engineErrors \cup
                                       { EngineError("parse", out.escaped) }
       ELSE /\ engineErrors' = engineErrors \cup
                                 { EngineError("HttpErrorMiddleware", "HttpError") }
            /\ UNCHANGED << products, parseLog >>
    /\ scheduled' = scheduled (-) SetToBag({ req })
    /\ UNCHANGED << phase, driver, seeds, yielded, startPc, seen, cycleLog,
                    taken_down_list, missing_seller_list, calls, files >>
    /\ UNCHANGED << scrollVars, dagVars >>

(***************************************************************************)
(* closed(): dedup, export, and the update collaborators.                  *)
(***************************************************************************)
\* utils.unique_list_of_product(spider): the spider's products with one
\* record per url, the first one appended.
RECURSIVE UniqueFrom(_, _)
UniqueFrom(list, urls) ==
    IF list = << >> THEN << >>
    ELSE IF Head(list).url \in urls THEN UniqueFrom(Tail(list), urls)
    ELSE << Head(list) >> \o UniqueFrom(Tail(list), urls \cup { Head(list).url })

unique_list_of_product(prods) == UniqueFrom(prods, { })

\* The keys of a Listing dict, in insertion order (lines 36-54).
ListingFields ==
    << "seller", "company_id", "keyword", "region", "country", "domain", "currency",
       "shipping_address", "created_at", "url", "title", "description", "price", "pic" >>

Call(fn, arg) == [ fn |-> fn, arg |-> arg ]

\* A plausible slip: the raw accumulator exported instead of the deduplicated list.
closed_effect_raw(prods, taken, missing) ==
    LET unique_products == unique_list_of_product(prods) IN
    [ files |-> IF unique_products # << >>
                THEN { [ header |-> ListingFields, rows |-> unique_products ] }
                ELSE { },
      calls |-> << Call("write_to_excel", prods) >>
                \o (IF taken # << >> THEN << Call("update_last_seen", taken) >> ELSE << >>)
                \o (IF missing # << >> THEN << Call("update_sellers", missing) >> ELSE << >>) ]

\* A plausible slip: the export skipped, like the file, when nothing was found.
closed_effect_skip_empty(prods, taken, missing) ==
    LET unique_products == unique_list_of_product(prods) IN
    [ files |-> IF unique_products # << >>
                THEN { [ header |-> ListingFields, rows |-> unique_products ] }
                ELSE { },
      calls |-> (IF unique_products # << >>
                 THEN << Call("write_to_excel", unique_products) >> ELSE << >>)
                \o (IF taken # << >> THEN << Call("update_last_seen", taken) >> ELSE << >>)
                \o (IF missing # << >> THEN << Call("update_sellers", missing) >> ELSE << >>) ]

\* A plausible slip: the update collaborators called before the export.
closed_effect_updates_first(prods, taken, missing) ==
    LET unique_products == unique_list_of_product(prods) IN
    [ files |-> IF unique_products # << >>
                THEN { [ header |-> ListingFields, rows |-> unique_products ] }
                ELSE { },
      calls |-> (IF taken # << >> THEN << Call("update_last_seen", taken) >> ELSE << >>)
                \o (IF missing # << >> THEN << Call("update_sellers", missing) >> ELSE << >>)
                \o << Call("write_to_excel", unique_products) >> ]

\* lines 246-266: the file written (if any) and the collaborator calls, in order.
closed_effect(prods, taken, missing) ==
    LET unique_products == unique_list_of_product(prods) IN
    [ files |-> IF unique_products # << >>
                THEN { [ header |-> ListingFields, rows |-> unique_products ] }
                ELSE { },
      calls |-> << Call("write_to_excel", unique_products) >>
                \o (IF taken # << >> THEN << Call("update_last_seen", taken) >> ELSE << >>)
                \o (IF missing # << >> THEN << Call("update_sellers", missing) >> ELSE << >>) ]

\* The engine calls closed once, when start_requests is exhausted and no
\* request is queued or being processed.
closed ==
    /\ phase = "running"
    /\ startPc = "done"
    /\ scheduled = EmptyBag
    /\ LET e == closed_effect(products, taken_down_list, missing_seller_list) IN
       /\ files' = files \cup e.files
       /\ calls' = calls \o e.calls
    /\ phase' = "closed"
    /\ UNCHANGED << driver, seeds, yielded, startPc, scheduled, seen,
                    cycleLog, parseLog, engineErrors, products, taken_down_list,
                    missing_seller_list >>
    /\ UNCHANGED << scrollVars, dagVars >>

\* lines 84-86 and 99-104: a further PoshmarkCrawler constructed in the
\* process once a run is over.  __init__ opens a session and registers the
\* region and country; the engine of the new run has its own scheduler and
\* dupefilter; products, taken_down_list and missing_seller_list are
\* attributes of the class, which __init__ does not rebind.
new_instance ==
    /\ phase = "closed"
    /\ phase' = "running"
    /\ driver' = "alive"
    /\ startPc' = "start"
    /\ yielded' = << >>
    /\ scheduled' = EmptyBag
    /\ seen' = { }
    /\ calls' = Append(calls, Call("insert_region_and_country", << "NA", "United States" >>))
    /\ UNCHANGED << seeds, cycleLog, parseLog, engineErrors, products,
                    taken_down_list, missing_seller_list, files >>
    /\ UNCHANGED << scrollVars, dagVars >>

(***************************************************************************)
(* _scroll_page.                                                           *)
(***************************************************************************)
max_scroll_attempts == 30
products_cap == 500

MaxHeight == 3         \* document heights observed: 0..MaxHeight
MaxCount == 2          \* card counts observed: 0..MaxCount, and around the cap

Heights == 0..MaxHeight
Counts == (0..MaxCount) \cup { products_cap, products_cap + 1 }

\* What the page can show after one more scroll: any of the small values, or
\* one more than was seen before (a page that keeps growing).
HeightsAfter(last) == Heights \cup { last + 1 }
CountsAfter(count) == Counts \cup { count + 1 }

\* lines 194-197
scroll_enter ==
    /\ scrollPc = "idle"
    /\ \E h \in Heights : last_height' = h
    /\ products_count' = 0
    /\ scroll_attempts' = 0
    /\ scrolls' = 0
    /\ scrollPc' = "loop"
    /\ UNCHANGED << growth, stalled >>
    /\ UNCHANGED << runVars, dagVars >>

\* A plausible slip: the cap compared with >=.
scroll_break_ge(new_height, n, last, count) ==
    new_height = last \/ n = count \/ n >= products_cap

\* lines 206-208
scroll_break(new_height, n, last, count) ==
    new_height = last \/ n = count \/ n > products_cap

\* A plausible slip: an off-by-one loop condition.
scroll_condition_le(attempts) == attempts <= max_scroll_attempts

\* line 199: while scroll_attempts < max_scroll_attempts
scroll_condition(attempts) == attempts < max_scroll_attempts

\* lines 199-213: one execution of the loop body.
scroll_iteration ==
    /\ scrollPc = "loop"
    /\ scroll_condition(scroll_attempts)
    /\ \E new_height \in HeightsAfter(last_height), n \in CountsAfter(products_count) :
         /\ scrolls' = scrolls + 1
         /\ stalled' = (new_height <= last_height \/ n <= products_count
                          \/ n > products_cap)
         /\ growth' = IF growth = "steady" /\ new_height > last_height
                          /\ n > products_count
                       THEN (IF n > products_cap THEN "capped" ELSE "steady")
                       ELSE "broken"
         /\ IF scroll_break(new_height, n, last_height, products_count)
            THEN /\ scrollPc' = "returned"
                 /\ UNCHANGED << last_height, products_count, scroll_attempts >>
            ELSE /\ last_height' = new_height
                 /\ products_count' = n
                 /\ scroll_attempts' = scroll_attempts + 1
                 /\ UNCHANGED scrollPc
    /\ UNCHANGED << runVars, dagVars >>

\* line 199: the loop condition fails.
scroll_exhausted ==
    /\ scrollPc = "loop"
    /\ ~scroll_condition(scroll_attempts)
    /\ scrollPc' = "returned"
    /\ UNCHANGED << last_height, products_count, scroll_attempts, scrolls,
                    growth, stalled >>
    /\ UNCHANGED << runVars, dagVars >>

(***************************************************************************)
(* The Airflow DAG (src/PoshmarkUSDAG.py).                                 *)
(***************************************************************************)
retries == 3

run_scrapy_task == "Run_PoshmarkUSSpider"
load_data_task == "PoshmarkUSSpider_load_data"
Tasks == { run_scrapy_task, load_data_task }

\* line 96: run_scrapy_task >> load_data_task
upstream(task) == IF task = load_data_task THEN { run_scrapy_task } ELSE { }

Terminal(state) == state \in { "success", "failed" }

\* A plausible slip: the default trigger rule, all_success.
trigger_rule_all_success(task, states) ==
    \A u \in upstream(task) : states[u] = "success"

\* line 93: trigger_rule="all_done" on load_data_task; run_scrapy_task has
\* no upstream task, so its (default) rule holds trivially.
trigger_rule(task, states) ==
    \A u \in upstream(task) : Terminal(states[u])

\* The scheduler starts a try of a task instance that is waiting for its
\* first try or for a retry, once its trigger rule holds.
task_start(task) ==
    /\ taskState[task] \in { "none", "up_for_retry" }
    /\ trigger_rule(task, taskState)
    /\ taskState' = [taskState EXCEPT ![task] = "running"]
    /\ try_number' = [try_number EXCEPT ![task] = @ + 1]
    /\ UNCHANGED taskLog
    /\ UNCHANGED << runVars, scrollVars >>

\* lines 31-37: a try that raised is retried while tries remain ("retries": 3,
\* the same default_args for both tasks), and fails the task otherwise.
after_try(task, raised) ==
    IF ~raised THEN "success"
    ELSE IF try_number[task] <= retries THEN "up_for_retry" ELSE "failed"

TryEntry(task, environment, raised, returncode) ==
    [ task |-> task, try |-> try_number[task], environment |-> environment,
      raised |-> raised, returncode |-> returncode ]

\* lines 40-67: one try of run_scrapy_task. Variable.get and os.chdir can
\* raise; subprocess.run is called without check, so it returns whatever
\* the exit status of the command is.
run_scrapy_spider ==
    /\ taskState[run_scrapy_task] = "running"
    /\ \E environment \in { << "prod" >>, << >> }, chdir_ok \in BOOLEAN, status \in { 0, 1 } :
         LET returncode == IF chdir_ok THEN Some(status) ELSE None
         IN /\ taskState' = [taskState EXCEPT
                              ![run_scrapy_task] = after_try(run_scrapy_task, ~chdir_ok)]
            /\ taskLog' = taskLog \cup
                 { TryEntry(run_scrapy_task, environment, ~chdir_ok, returncode) }
    /\ UNCHANGED try_number
    /\ UNCHANGED << runVars, scrollVars >>

\* lines 85-94: one try of load_data_task; load_data returns or raises (the
\* 12 h execution_timeout ends a try that would not end by itself).
load_data ==
    /\ taskState[load_data_task] = "running"
    /\ \E raised \in BOOLEAN :
         /\ taskState' = [taskState EXCEPT
                           ![load_data_task] = after_try(load_data_task, raised)]
         /\ taskLog' = taskLog \cup { TryEntry(load_data_task, << >>, raised, None) }
    /\ UNCHANGED try_number
    /\ UNCHANGED << runVars, scrollVars >>

(***************************************************************************)
(* Initial states and specifications.                                      *)
(***************************************************************************)
\* lines 84-86 and 99-104: the class-level accumulators and a constructed
\* spider, whose __init__ opened the one browser session and registered the
\* region and country.
InitWith(sd, sched, pc, prods, taken, missing) ==
    /\ phase = "running"
    /\ driver = "alive"
    /\ seeds = sd
    /\ yielded = << >>
    /\ startPc = pc
    /\ scheduled = sched
    /\ seen = { }
    /\ cycleLog = { }
    /\ parseLog = { }
    /\ engineErrors = { }
    /\ products = prods
    /\ taken_down_list = taken
    /\ missing_seller_list = missing
    /\ calls = << Call("insert_region_and_country", << "NA", "United States" >>) >>
    /\ files = { }
    /\ last_height = 0
    /\ products_count = 0
    /\ scroll_attempts = 0
    /\ scrollPc = "idle"
    /\ scrolls = 0
    /\ growth = "steady"
    /\ stalled = FALSE
    /\ taskState = [ task \in Tasks |-> "none" ]
    /\ try_number = [ task \in Tasks |-> 0 ]
    /\ taskLog = { }

\* The seed lists of a run: scraper_url_list returns each search once.
SeedLists ==
    { sd \in SeqsUpTo(SeedPool, MaxSeeds) :
        \A i, j \in 1..Len(sd) : sd[i] = sd[j] => i = j }

\* One run: the seed list is what scraper_url_list returns.
Init ==
    \E sd \in SeedLists :
      InitWith(sd, EmptyBag, "start", << >>, << >>, << >>)

Next ==
    \/ start_requests(SeqsUpTo(AuxUrls, MaxAux), SeqsUpTo(Adverts, MaxAux))
    \/ \E req \in BagToSet(scheduled) : crawl_deliver(req)
    \/ \E req \in BagToSet(scheduled) : \E response \in RunPages(req) :
         parse_deliver(req, response)
    \/ closed

Spec == Init /\ [][Next]_vars

\* The engine keeps processing while something is enabled.
FairSpec == Spec /\ WF_vars(Next)

\* start_requests over one seed, every seed of the domain.
InitSeeds ==
    \E obj \in SeedDomain :
      InitWith(<< obj >>, EmptyBag, "start", << >>, << >>, << >>)

NextSeeds == start_requests({ << >> }, { << >> })

SpecSeeds == InitSeeds /\ [][NextSeeds]_vars

\* _scroll_page over every sequence of observations.
InitScroll == InitWith(<< >>, EmptyBag, "start", << >>, << >>, << >>)

NextScroll ==
    \/ scroll_enter
    \/ scroll_iteration
    \/ scroll_exhausted

SpecScroll == InitScroll /\ [][NextScroll]_vars

\* One DAG run: the scheduler and the tries of the two tasks.
InitDAG == InitWith(<< >>, EmptyBag, "start", << >>, << >>, << >>)

NextDAG ==
    \/ \E task \in Tasks : task_start(task)
    \/ run_scrapy_spider
    \/ load_data

SpecDAG == InitDAG /\ [][NextDAG]_vars

\* The scheduler keeps scheduling and a started try ends.
FairSpecDAG == SpecDAG /\ WF_vars(NextDAG)

\* parse over every detail page.
MaxTextLen == 2        \* tokens in the text of a page element

Texts == { None } \cup { Some(t) : t \in SeqsUpTo({ " ", "T" }, MaxTextLen) }
Pics == { None, Some(<< >>), Some(<< "img" >>) }

\* The statuses a fetch can end with: 200, two error statuses and the last
\* code of the range the setting enumerates.
StatusPool == { 200, 404, 500, 999 }

PageDomain(req) ==
    { Response(req.url, s, t, d, p, i, req.meta) :
        s \in StatusPool, t \in Texts, d \in Texts, p \in Texts, i \in Pics }

ParseRequests ==
    { ListingRequest(ListingA, Some(7), Some("dress")),
      missing_seller_requests(<< ListingGone >>)[1],
      taken_down_requests(<< << 1, "bag", ListingA >> >>)[1] }

InitParse ==
    \E req \in ParseRequests :
      InitWith(<< >>, SetToBag({ req }), "done", << >>, << >>, << >>)

NextParse ==
    \E req \in BagToSet(scheduled) : \E response \in PageDomain(req) :
      parse_deliver(req, response)

SpecParse == InitParse /\ [][NextParse]_vars

\* _scroll_page under the fairness of a loop that keeps running.
FairSpecScroll == SpecScroll /\ WF_vars(NextScroll)

\* closed() over every content of the three class-level accumulators.
MkListing(u, t, k) ==
    [ seller |-> << "poshmark" >>, company_id |-> Some(7), keyword |-> Some(k),
      region |-> << "NA" >>, country |-> << "United States" >>,
      domain |-> << "poshmark.com" >>, currency |-> << "USD" >>,
      shipping_address |-> << >>, created_at |-> Today, url |-> u,
      title |-> t, description |-> << "D" >>, price |-> << "$1" >>,
      pic |-> << "img" >> ]

ListingPool ==
    { MkListing(ListingA, << "T1" >>, "dress"),
      MkListing(ListingA, << "T2" >>, "shoes"),
      MkListing(ListingB, << "T1" >>, "dress") }

InitShutdown ==
    \E prods \in SeqsUpTo(ListingPool, MaxAccum),
       taken \in SeqsUpTo(Adverts, MaxAux),
       missing \in SeqsUpTo(AuxUrls, MaxAux) :
      InitWith(<< >>, EmptyBag, "done", prods, taken, missing)

NextShutdown ==
    \/ closed
    \/ new_instance

SpecShutdown == InitShutdown /\ [][NextShutdown]_vars

(***************************************************************************)
(* Properties.                                                             *)
(***************************************************************************)

\* C1: _scroll_page returns for every sequence of (height, count)
\* observations, and it never executes its loop body more than 30 times.
C1_ScrollTerminates ==
    /\ [](scrolls <= max_scroll_attempts)
    /\ <>(scrollPc = "returned")

\* C1 witness: a scroll that returned only after 30 loop bodies.
C1_Witness == scrollPc = "returned" /\ scrolls = max_scroll_attempts

\* The set of the names a seed declares, as start_requests reads them.
DeclaredRegions(obj) == { regions_of(obj)[i] : i \in 1..Len(regions_of(obj)) }
DeclaredCountries(obj) == { countries_of(obj)[i] : i \in 1..Len(countries_of(obj)) }

SeedRequest(obj) ==
    Request(obj.url, "crawl_poshmark_products", Some(obj.company_id),
            Some(obj.keyword), NoMeta, TRUE)

\* C2: once start_requests has run, a seed has a primary crawl request iff
\* it declares no regions and no countries, or its regions contain "NA", or
\* its countries contain "United States"; a seed with non-empty regions
\* lacking "NA" and non-empty countries lacking "United States" has none.
C2_SeedApplicability ==
    startPc = "done" =>
      \A i \in 1..Len(seeds) :
        LET R == DeclaredRegions(seeds[i])
            C == DeclaredCountries(seeds[i])
            requested == BagIn(SeedRequest(seeds[i]), scheduled)
        IN /\ requested <=>
                \/ (R = { } /\ C = { })
                \/ << "NA" >> \in R
                \/ << "United States" >> \in C
           /\ (R # { } /\ << "NA" >> \notin R /\ C # { } /\ << "United States" >> \notin C)
                => ~requested

\* C2 witness: a seed for other regions and other countries was iterated
\* and nothing was requested.
C2_Witness ==
    /\ startPc = "done"
    /\ Len(seeds) = 1
    /\ DeclaredRegions(seeds[1]) = { << "EU" >> }
    /\ DeclaredCountries(seeds[1]) = { << "France" >> }
    /\ scheduled = EmptyBag

GlobalSeed == MkSeed(base_url \o << "/search/dress" >>, "dress", 7, None, None)

\* C3: a run whose only seed is the global seed (keyword "dress", company
\* id 7), whose search page rendered 3 listing anchors, each leading to a
\* fully populated detail page, and whose lookups returned nothing, has
\* accumulated exactly 3 Listings when closed() has run, each tagged with
\* the seed's keyword and company id, currency "USD" and the crawl date.
C3_EndToEnd ==
    ( /\ phase = "closed"
      /\ seeds = << GlobalSeed >>
      /\ seen = { }
      /\ \E c \in cycleLog : c.outcome = "cards" /\ c.anchors = 3 /\ c.emitted = 3 )
    => /\ Len(products) = 3
       /\ \A i \in 1..Len(products) :
            /\ products[i].keyword = Some("dress")
            /\ products[i].company_id = Some(7)
            /\ products[i].currency = << "USD" >>
            /\ products[i].created_at = Today

\* C3 witness: the scenario happens: closed() has run after the one global
\* seed rendered 3 anchors and every one of them was handed to parse.
C3_Witness ==
    /\ phase = "closed"
    /\ seeds = << GlobalSeed >>
    /\ seen = { }
    /\ \E c \in cycleLog : c.outcome = "cards" /\ c.anchors = 3 /\ c.emitted = 3
    /\ parseLog # { }

\* What the getter of a text field is to return for an element: "" when the
\* element is missing, its stripped text otherwise.
Degraded(o) == IF o = None THEN << >> ELSE Strip(o[1])

\* C4: parse of a detail page whose description element is missing appends
\* a Listing whose description is "" and whose title, price and pic come
\* from the elements that are present; likewise for each of the four fields.
C4_FieldDegradation ==
    \A e \in parseLog :
      (e.response.title = None \/ e.response.description = None
         \/ e.response.price = None \/ e.response.pic = None)
      => /\ e.outcome.appended # None
         /\ e.outcome.appended[1].title = Degraded(e.response.title)
         /\ e.outcome.appended[1].description = Degraded(e.response.description)
         /\ e.outcome.appended[1].price = Degraded(e.response.price)
         /\ e.outcome.appended[1].pic =
              (IF e.response.pic = None THEN << >> ELSE e.response.pic[1])

\* C4 witness: parse was called on a page that lacks only its description.
C4_Witness ==
    \E e \in parseLog :
      /\ e.response.description = None
      /\ e.response.title # None /\ e.response.price # None /\ e.response.pic # None

\* C5: once closed() has completed, the browser session the spider opened
\* has been terminated.
C5_NoSessionLeak == phase = "closed" => driver = "quit"

\* C5 witness: closed() has run in a run whose seeds were all rejected.
C5_Witness ==
    /\ phase = "closed"
    /\ seeds # << >>
    /\ \A i \in 1..Len(yielded) : ~yielded[i]

\* C6: a cycle whose listing grid did not appear within the wait yields no
\* follow-up request, lets no exception out of the callback, and leaves the
\* session terminated.
C6_RenderTimeout ==
    \A c \in cycleLog :
      c.outcome = "timeout" =>
        /\ c.emitted = 0
        /\ c.escaped = ""
        /\ c.driverAfter = "quit"

\* C6 witness: a cycle ended in a render timeout.
C6_Witness == \E c \in cycleLog : c.outcome = "timeout"

\* The calls of a collaborator, in call order.
ArgsOf(fn) == SelectSeq(calls, LAMBDA c : c.fn = fn)

UrlsOf(list) == { list[i].url : i \in 1..Len(list) }
RecordsOf(list) == { list[i] : i \in 1..Len(list) }

\* C7: when closed() has run, write_to_excel has been called exactly once;
\* with no accumulated Listing no file was written and the call's argument
\* is the empty list; otherwise exactly one file was written and its rows
\* are the list write_to_excel received, which has no two records of one url.
C7_EmptyRunExport ==
    phase = "closed" =>
      /\ Len(ArgsOf("write_to_excel")) = 1
      /\ LET exported == ArgsOf("write_to_excel")[1].arg IN
         /\ products = << >> => (files = { } /\ exported = << >>)
         /\ products # << >> =>
              /\ files = { [ header |-> ListingFields, rows |-> exported ] }
              /\ exported # << >>
              /\ \A i, j \in 1..Len(exported) :
                   exported[i].url = exported[j].url => i = j

\* C7 witness: closed() has run with nothing accumulated.
C7_Witness ==
    /\ phase = "closed"
    /\ products = << >>
    /\ files = { }
    /\ ArgsOf("write_to_excel") = << Call("write_to_excel", << >>) >>

\* The permutations of 1..n.
Perms(n) == { f \in [1..n -> 1..n] : \A i, j \in 1..n : f[i] = f[j] => i = j }

C9_Isolated ==
    /\ \A e \in engineErrors : e.callback # "parse"
    /\ \A e \in parseLog : e.outcome.escaped = ""
    /\ \A e \in parseLog : e.outcome.appended # None => In(e.outcome.appended[1], products)
    /\ \A i \in 1..Len(products) : \E e \in parseLog : e.outcome.appended = Some(products[i])
    /\ phase = "closed" => scheduled = EmptyBag

C9_ParseRaised == \E e \in parseLog : e.outcome.caught # ""

\* C9: an exception raised while one listing is extracted is caught at that
\* listing's boundary, and the run goes on to process the other requests
\* and reaches closed().
C9_PerListingIsolation ==
    /\ []C9_Isolated
    /\ (C9_ParseRaised ~> (phase = "closed"))

\* C9 witness: closed() has run after parse raised on one listing and was
\* called for another one too.
C9_Witness ==
    /\ phase = "closed"
    /\ C9_ParseRaised
    /\ Cardinality(parseLog) >= 2

\* The positions in calls of the calls of a collaborator.
PositionsOf(fn) == { i \in 1..Len(calls) : calls[i].fn = fn }

\* C10: when closed() has run, update_last_seen has been called (once, with
\* the taken-down accumulator) iff that accumulator is non-empty, likewise
\* update_sellers with the missing-seller accumulator, and both come after
\* the one call of write_to_excel.
C10_ShutdownOrdering ==
    phase = "closed" =>
      /\ Cardinality(PositionsOf("write_to_excel")) = 1
      /\ ArgsOf("update_last_seen") =
           (IF taken_down_list # << >>
            THEN << Call("update_last_seen", taken_down_list) >> ELSE << >>)
      /\ ArgsOf("update_sellers") =
           (IF missing_seller_list # << >>
            THEN << Call("update_sellers", missing_seller_list) >> ELSE << >>)
      /\ \A i \in PositionsOf("write_to_excel") :
         \A j \in PositionsOf("update_last_seen") \cup PositionsOf("update_sellers") :
           i < j
      /\ \A i \in PositionsOf("update_last_seen") :
         \A j \in PositionsOf("update_sellers") : i < j

\* C10 witness: closed() has run with both accumulators non-empty and has
\* called both update collaborators.
C10_Witness ==
    /\ phase = "closed"
    /\ taken_down_list # << >>
    /\ missing_seller_list # << >>
    /\ Len(ArgsOf("update_last_seen")) = 1
    /\ Len(ArgsOf("update_sellers")) = 1

\* A detail page that has the four scraped elements.
LivePage(response) ==
    /\ Truthy(response.title) /\ Truthy(response.description)
    /\ Truthy(response.price) /\ Truthy(response.pic)

FieldStrings == SeqsUpTo({ " ", "T", "img" }, MaxTextLen)

C13_SteadyGrowth ==
    /\ (growth = "steady" /\ scrollPc = "loop")
         => scrolls = scroll_attempts /\ products_count <= products_cap
    /\ (growth = "steady" /\ scrollPc = "returned")
         => scrolls = max_scroll_attempts
    /\ growth = "capped"
         => scrollPc = "returned" /\ scrolls = scroll_attempts + 1
              /\ scrolls <= max_scroll_attempts

\* C13 witness: a scroll over a page that grew at each of 30 observations
\* has returned.
C13_Witness ==
    scrollPc = "returned" /\ growth = "steady" /\ scrolls = max_scroll_attempts
      /\ last_height >= max_scroll_attempts

\* C15: after a loop body whose observation did not exceed the one before
\* in height or in count (lower ones included), or counted more than 500
\* cards, and after the 30th loop body, _scroll_page executes no further
\* loop body.
C15_StopConditions ==
    [][(stalled \/ scrolls = max_scroll_attempts) => scrolls' = scrolls]_vars

\* C15 witness: a loop body observed a height or count below the one
\* before.
C15_Witness ==
    stalled /\ scrolls >= 1 /\ growth = "broken"

C16_OwnSession ==
    \A c \in cycleLog : c.outcome # "dead"

\* C16 witness: two accepted seeds of one run have both had their cycle.
C16_Witness ==
    /\ Len(seeds) = 2
    /\ Len(yielded) = 2
    /\ \A i \in 1..Len(yielded) : yielded[i]
    /\ \E c1, c2 \in cycleLog : c1 # c2

\* The hrefs of the cards of a page that have one.
WithHref(cards) == { h \in BagToSet(cards) : h # None /\ h[1] # << >> }

\* The url a follow-up fetch is to have for an href: the href itself when it
\* is absolute, the site's base url followed by it when it is relative.
AbsoluteUrl(href) ==
    IF Head(href) = "http" THEN href ELSE << "http", "s://poshmark.com" >> \o href

\* The number of cards of a page whose href resolves to url u.
CardsFor(cards, u) ==
    BagCardinality([ h \in { g \in WithHref(cards) : AbsoluteUrl(g[1]) = u }
                       |-> cards[h] ])

\* C17: a cycle whose page rendered with listing cards yields one Request
\* to parse per card that has an href and none for the cards that have
\* none; each carries the keyword and company_id of a seed of the run, the
\* ones the cycle was called with, and its url is the href when the href is
\* absolute, base_url followed by the href otherwise.
C17_PrimaryEnumeration ==
    \A c \in cycleLog :
      c.outcome = "cards" =>
        /\ \E j \in 1..Len(seeds) :
             /\ yielded[j]
             /\ c.keyword = << seeds[j].keyword >>
             /\ c.company_id = << seeds[j].company_id >>
        /\ \A h \in WithHref(c.cards) :
             \E r \in BagToSet(c.requests) : r.url = AbsoluteUrl(h[1])
        /\ \A r \in BagToSet(c.requests) :
             /\ CopiesIn(r, c.requests) = CardsFor(c.cards, r.url)
             /\ r.callback = "parse"
             /\ r.keyword = c.keyword
             /\ r.company_id = c.company_id
             /\ r.dont_filter
        /\ \A r1, r2 \in BagToSet(c.requests) : r1.url = r2.url => r1 = r2

\* C17 witness: a page rendered with a card without an anchor, a card with
\* a relative href and a card with an absolute one, and the cycle is over.
C17_Witness ==
    \E c \in cycleLog :
      /\ c.outcome = "cards"
      /\ BagToSet(c.cards) = { None, << << "/listing/a" >> >>,
                               << << "http", "s://poshmark.com", "/listing/b" >> >> }
      /\ BagCardinality(c.requests) = 2

C19_AllStatusesDelivered ==
    /\ \A e \in engineErrors : e.exc # "HttpError"
    /\ scheduled = EmptyBag => Cardinality(parseLog) = 1
    /\ \A e \in parseLog :
         e.outcome = parse([e.response EXCEPT !.status = 200], e.kwargs)

\* C19 witness: the 404 response of a taken-down re-check and no other
\* response has been handed to parse.
C19_Witness ==
    /\ scheduled = EmptyBag
    /\ \E e \in parseLog : e.response.status = 404 /\ e.response.meta.kind = "taken_down"

====
